---- MODULE Spec2Model ----
(***************************************************************************)
(* A model of package celery (src/celery.go): the Task wire codec          *)
(* (MarshalJSON / UnmarshalJSON with the time layout timeFormat) and the   *)
(* Consume loop that drains an AMQP delivery stream into a Go channel.     *)
(*                                                                         *)
(* Strings that the code formats or parses (the eta / expires values) are  *)
(* sequences of one-character strings, so that formatting and parsing are  *)
(* computed character by character.  JSON text is modelled one level up:   *)
(* a byte slice is either not JSON at all, or the JSON object it spells,   *)
(* a function from the keys present to their values.                       *)
(***************************************************************************)
EXTENDS Integers, Sequences, FiniteSets, TLC

VARIABLES
    task,        \* codec: the Task that was encoded
    encoded,     \* codec: result of the last task.MarshalJSON()
    decoded,     \* codec: result of the last UnmarshalJSON into a fresh Task
    pc,          \* Consume: position of the call
    ret,         \* Consume: value returned ("none" while running)
    deliveries,  \* Consume: the delivery stream (Go channel of amqp.Delivery)
    stream,      \* Consume: the delivery stream is "none", "open" or "closed"
    msg,         \* Consume: loop variable msg
    cur,         \* Consume: loop variable task (a fresh Task per iteration)
    messages,    \* Consume: buffer of the output channel
    cap,         \* Consume: capacity of the output channel (0 = unbuffered)
    readerOn,    \* Consume: the reader of the output channel is still reading
    readerGot,   \* Consume: Tasks the reader of the output channel has taken
    arrived,     \* history: deliveries the broker has put on the stream
    received,    \* history: deliveries the loop has received
    pushed,      \* history: Tasks sent on the output channel
    acks,        \* history: ch.Ack calls
    bindCalls,   \* history: ch.QueueBind calls
    openCalls,   \* history: ch.Consume calls
    newTask,     \* Task life: what NewTask was given and what it returned
    lastOp,      \* Task life: the last operation applied to the Task
    pubCalls,    \* Task life: ch.Publish calls made by the last Publish
    history      \* Task life: names of the operations applied to the Task

codecVars == <<task, encoded, decoded>>
consumeVars == <<pc, ret, deliveries, stream, msg, cur, messages, cap, readerOn,
                 readerGot, arrived, received, pushed, acks, bindCalls, openCalls>>
taskVars == <<newTask, lastOp, pubCalls, history>>
vars == <<task, encoded, decoded, pc, ret, deliveries, stream, msg, cur, messages,
          cap, readerOn, readerGot, arrived, received, pushed, acks, bindCalls,
          openCalls, newTask, lastOp, pubCalls, history>>

(***************************************************************************)
(* Bounds of the model.                                                    *)
(***************************************************************************)
MaxArgs == 1
MaxRetries == 1
MaxDeliveries == 3
MaxCap == 1
MaxOps == 2

(***************************************************************************)
(* Error values.                                                           *)
(***************************************************************************)
Nil == "nil"
SyntaxError == "json.SyntaxError"
UnsupportedTypeError == "json.UnsupportedTypeError"
ParseError == "time.ParseError"
ErrClosed == "amqp: channel/connection is not open"
ErrNotFound == "amqp: NOT_FOUND"
ErrAccessRefused == "amqp: ACCESS_REFUSED"
MarshalerError == "json.MarshalerError"
ErrRandom == "uuid: random source failed"

(***************************************************************************)
(* time.Time: the civil fields of the instant in UTC, to the nanosecond,   *)
(* and the location the value carries.                                     *)
(***************************************************************************)
Date(y, mo, d, h, mi, s, ns, l) ==
    [year |-> y, month |-> mo, day |-> d, hour |-> h, min |-> mi, sec |-> s,
     nsec |-> ns, loc |-> l]

ZeroTime == Date(1, 1, 1, 0, 0, 0, 0, "UTC")

IsZero(t) == [t EXCEPT !.loc = "UTC"] = ZeroTime

UTC(t) == [t EXCEPT !.loc = "UTC"]

(***************************************************************************)
(* Characters and decimal digits.                                          *)
(***************************************************************************)
Digits == <<"0", "1", "2", "3", "4", "5", "6", "7", "8", "9">>

IsDigit(c) == \E i \in 1..10 : Digits[i] = c

DigitVal(c) == (CHOOSE i \in 1..10 : Digits[i] = c) - 1

RECURSIVE Pow10(_)
Pow10(n) == IF n = 0 THEN 1 ELSE 10 * Pow10(n - 1)

\* appendInt(b, x, width): x in decimal, zero-padded to width digits
AppendInt(x, width) ==
    [i \in 1..width |-> Digits[((x \div Pow10(width - i)) % 10) + 1]]

\* decimal value of a sequence of digits
RECURSIVE Atoi(_)
Atoi(s) == IF s = <<>> THEN 0
           ELSE 10 * Atoi(SubSeq(s, 1, Len(s) - 1)) + DigitVal(s[Len(s)])

AllDigits(s) == \A i \in 1..Len(s) : IsDigit(s[i])

\* the longest prefix of s made of digits
RECURSIVE DigitRun(_)
DigitRun(s) == IF s = <<>> \/ ~IsDigit(Head(s)) THEN 0 ELSE 1 + DigitRun(Tail(s))

\* s without its trailing "0" characters
RECURSIVE TrimZeros(_)
TrimZeros(s) == IF s # <<>> /\ s[Len(s)] = "0"
                THEN TrimZeros(SubSeq(s, 1, Len(s) - 1))
                ELSE s

Drop(s, n) == SubSeq(s, n + 1, Len(s))

(***************************************************************************)
(* The layout: the chunks package time splits "2006-01-02T15:04:05.999999" *)
(* into.  The last chunk is a fractional second of up to six digits with   *)
(* trailing zeros removed (nines, not zeros, in the layout).               *)
(***************************************************************************)
timeFormat ==
    <<"2006", "-", "01", "-", "02", "T", "15", ":", "04", ":", "05", ".999999">>

\* the fractional second under ".999999": nothing for a zero nanosecond,
\* else the first six of nine digits, trailing zeros and a bare dot removed
FormatNano(nsec) ==
    IF nsec = 0 THEN <<>>
    ELSE LET six == TrimZeros(SubSeq(AppendInt(nsec, 9), 1, 6))
         IN  IF six = <<>> THEN <<>> ELSE <<".">> \o six

FormatChunk(t, std) ==
    CASE std = "2006" -> AppendInt(t.year, 4)
      [] std = "01" -> AppendInt(t.month, 2)
      [] std = "02" -> AppendInt(t.day, 2)
      [] std = "15" -> AppendInt(t.hour, 2)
      [] std = "04" -> AppendInt(t.min, 2)
      [] std = "05" -> AppendInt(t.sec, 2)
      [] std = ".999999" -> FormatNano(t.nsec)
      [] OTHER -> <<std>>

\* t.Format(layout)
RECURSIVE Format(_, _)
Format(t, layout) ==
    IF layout = <<>> THEN <<>>
    ELSE FormatChunk(t, Head(layout)) \o Format(t, Tail(layout))

IsLeap(y) == y % 4 = 0 /\ (y % 100 # 0 \/ y % 400 = 0)

DaysIn(m, y) == IF m = 2 THEN (IF IsLeap(y) THEN 29 ELSE 28)
                ELSE IF m \in {4, 6, 9, 11} THEN 30 ELSE 31

ParseStart(value) ==
    [ok |-> TRUE, rest |-> value, year |-> 0, month |-> 1, day |-> 1,
     hour |-> 0, min |-> 0, sec |-> 0, nsec |-> 0]

\* getnum(s, fixed): one or two leading digits; exactly two when fixed
GetNum(s, fixed) ==
    IF Len(s) < 1 \/ ~IsDigit(s[1]) THEN [ok |-> FALSE, n |-> 0, rest |-> s]
    ELSE IF Len(s) < 2 \/ ~IsDigit(s[2])
         THEN IF fixed THEN [ok |-> FALSE, n |-> 0, rest |-> s]
              ELSE [ok |-> TRUE, n |-> DigitVal(s[1]), rest |-> Drop(s, 1)]
         ELSE [ok |-> TRUE, n |-> 10 * DigitVal(s[1]) + DigitVal(s[2]),
               rest |-> Drop(s, 2)]

\* a fractional second read as under ".000000": a dot and exactly six digits
ParseNanoExact(st) ==
    IF Len(st.rest) >= 7 /\ st.rest[1] = "." /\ AllDigits(SubSeq(st.rest, 2, 7))
    THEN [st EXCEPT !.nsec = Atoi(SubSeq(st.rest, 2, 7)) * 1000,
                    !.rest = Drop(st.rest, 7)]
    ELSE [st EXCEPT !.ok = FALSE]

\* the fractional second under ".999999": optional, any number of digits,
\* of which nine count
ParseNano(st) ==
    IF Len(st.rest) < 2 \/ st.rest[1] # "." \/ ~IsDigit(st.rest[2]) THEN st
    ELSE LET all == DigitRun(Drop(st.rest, 1))
             n == IF all > 9 THEN 9 ELSE all
         IN  [st EXCEPT !.nsec = Atoi(SubSeq(st.rest, 2, n + 1)) * Pow10(9 - n),
                        !.rest = Drop(st.rest, 1 + all)]

ParseChunk(st, std) ==
    LET fail == [st EXCEPT !.ok = FALSE]
        two == GetNum(st.rest, std # "15")
    IN  IF ~st.ok THEN st
        ELSE CASE std = "2006" ->
                    IF Len(st.rest) < 4 \/ ~AllDigits(SubSeq(st.rest, 1, 4)) THEN fail
                    ELSE [st EXCEPT !.year = Atoi(SubSeq(st.rest, 1, 4)),
                                    !.rest = Drop(st.rest, 4)]
               [] std = "01" ->
                    IF ~two.ok \/ two.n < 1 \/ two.n > 12 THEN fail
                    ELSE [st EXCEPT !.month = two.n, !.rest = two.rest]
               [] std = "02" ->
                    IF ~two.ok THEN fail
                    ELSE [st EXCEPT !.day = two.n, !.rest = two.rest]
               [] std = "15" ->
                    IF ~two.ok \/ two.n >= 24 THEN fail
                    ELSE [st EXCEPT !.hour = two.n, !.rest = two.rest]
               [] std = "04" ->
                    IF ~two.ok \/ two.n >= 60 THEN fail
                    ELSE [st EXCEPT !.min = two.n, !.rest = two.rest]
               [] std = "05" ->
                    IF ~two.ok \/ two.n >= 60 THEN fail
                    ELSE [st EXCEPT !.sec = two.n, !.rest = two.rest]
               [] std = ".999999" -> ParseNano(st)
               [] OTHER ->
                    IF st.rest # <<>> /\ Head(st.rest) = std
                    THEN [st EXCEPT !.rest = Drop(st.rest, 1)]
                    ELSE fail

RECURSIVE ParseChunks(_, _)
ParseChunks(st, layout) ==
    IF layout = <<>> THEN st
    ELSE ParseChunks(ParseChunk(st, Head(layout)), Tail(layout))

\* time.Parse(layout, value): (Time, error); the zero Time with an error
Parse(layout, value) ==
    LET st == ParseChunks(ParseStart(value), layout)
    IN  IF st.ok /\ st.rest = <<>> /\ st.day >= 1 /\ st.day <= DaysIn(st.month, st.year)
        THEN [err |-> Nil,
              t |-> Date(st.year, st.month, st.day, st.hour, st.min, st.sec,
                         st.nsec, "UTC")]
        ELSE [err |-> ParseError, t |-> ZeroTime]

(***************************************************************************)
(* Task and FormattedTask.  Args is a sequence of strings; KWArgs is a set *)
(* of <<key, value>> pairs whose values are JSON values, or Unsupported,   *)
(* a Go value encoding/json cannot represent (a channel, a function).      *)
(***************************************************************************)
Unsupported == "chan int"

NewRecord(name, id, args, kwargs, retries, eta, expires) ==
    [Task |-> name, Id |-> id, Args |-> args, KWArgs |-> kwargs,
     Retries |-> retries, ETA |-> eta, Expires |-> expires]

\* Task{}
EmptyTask == NewRecord("", "", <<>>, {}, 0, ZeroTime, ZeroTime)

\* FormattedTask{}
EmptyFormattedTask == NewRecord("", "", <<>>, {}, 0, <<>>, <<>>)

(***************************************************************************)
(* Byte slices: kind "object" spells the JSON object obj, kind "garbage"   *)
(* is text that is not JSON, kind "empty" is no bytes at all.              *)
(***************************************************************************)
Bytes(kind, obj) == [kind |-> kind, obj |-> obj]

NoBytes == Bytes("empty", <<>>)

Garbage == Bytes("garbage", <<>>)

\* a struct field under its key, left out when empty (`omitempty`)
OmitEmpty(key, value, empty) == IF value = empty THEN <<>> ELSE key :> value

\* json.Marshal(out) of a FormattedTask, by its struct tags
JSONMarshal(out) ==
    IF \E kv \in out.KWArgs : kv[2] = Unsupported
    THEN [err |-> UnsupportedTypeError, bytes |-> NoBytes]
    ELSE [err |-> Nil,
          bytes |-> Bytes("object",
                          ("task" :> out.Task) @@ ("id" :> out.Id)
                          @@ OmitEmpty("args", out.Args, <<>>)
                          @@ OmitEmpty("kwargs", out.KWArgs, {})
                          @@ OmitEmpty("retries", out.Retries, 0)
                          @@ OmitEmpty("eta", out.ETA, <<>>)
                          @@ OmitEmpty("expires", out.Expires, <<>>))]

Get(obj, key, zero) == IF key \in DOMAIN obj THEN obj[key] ELSE zero

\* json.Unmarshal(data, &task) into a zero FormattedTask
JSONUnmarshal(data) ==
    IF data.kind # "object" THEN [err |-> SyntaxError, v |-> EmptyFormattedTask]
    ELSE [err |-> Nil,
          v |-> NewRecord(Get(data.obj, "task", ""), Get(data.obj, "id", ""),
                          Get(data.obj, "args", <<>>), Get(data.obj, "kwargs", {}),
                          Get(data.obj, "retries", 0), Get(data.obj, "eta", <<>>),
                          Get(data.obj, "expires", <<>>))]

\* the ETA / Expires conversion of MarshalJSON that leaves out the IsZero test
FormatTimeAlways(t) == Format(UTC(t), timeFormat)

\* out.ETA / out.Expires of MarshalJSON
FormatTime(t) == IF ~IsZero(t) THEN Format(UTC(t), timeFormat) ELSE <<>>

\* (t *Task) MarshalJSON() ([]byte, error)
MarshalJSON(t) ==
    JSONMarshal(NewRecord(t.Task, t.Id, t.Args, t.KWArgs, t.Retries,
                          FormatTime(t.ETA), FormatTime(t.Expires)))

\* UnmarshalJSON that checks all three errors before it touches the receiver
UnmarshalJSONValidateFirst(t, data) ==
    LET parsed == JSONUnmarshal(data)
        eta == Parse(timeFormat, parsed.v.ETA)
        expires == Parse(timeFormat, parsed.v.Expires)
    IN  IF parsed.err # Nil THEN [t |-> t, err |-> parsed.err]
        ELSE IF eta.err # Nil THEN [t |-> t, err |-> eta.err]
        ELSE IF expires.err # Nil THEN [t |-> t, err |-> expires.err]
        ELSE [t |-> [t EXCEPT !.Task = parsed.v.Task,
                              !.Id = parsed.v.Id,
                              !.Args = parsed.v.Args,
                              !.KWArgs = parsed.v.KWArgs,
                              !.Retries = parsed.v.Retries,
                              !.ETA = eta.t,
                              !.Expires = expires.t],
              err |-> Nil]

\* (t *Task) UnmarshalJSON(data []byte) error: the receiver after the call
\* and the error returned.  err is assigned three times and returned once.
UnmarshalJSON(t, data) ==
    LET parsed == JSONUnmarshal(data)
        eta == Parse(timeFormat, parsed.v.ETA)
        expires == Parse(timeFormat, parsed.v.Expires)
        err1 == parsed.err
        err2 == eta.err
        err3 == expires.err
    IN  [t |-> [t EXCEPT !.Task = parsed.v.Task,
                         !.Id = parsed.v.Id,
                         !.Args = parsed.v.Args,
                         !.KWArgs = parsed.v.KWArgs,
                         !.Retries = parsed.v.Retries,
                         !.ETA = eta.t,
                         !.Expires = expires.t],
         err |-> err3]

(***************************************************************************)
(* Inputs of the codec.                                                    *)
(***************************************************************************)
NameInputs == {"", "tasks.add"}

IdInputs == {"", "id-1"}

ArgsInputs == {[i \in 1..n |-> Digits[i + 1]] : n \in 0..MaxArgs}

KWArgsInputs == {{}, {<<"k", "v">>}, {<<"k", "v">>, <<"f", Unsupported>>}}

RetriesInputs == 0..MaxRetries

TimeInputs ==
    {ZeroTime,
     Date(2023, 5, 1, 12, 0, 0, 123456000, "UTC"),
     Date(2023, 5, 1, 12, 0, 0, 0, "UTC"),
     Date(2023, 5, 1, 12, 0, 0, 120000000, "UTC"),
     Date(1999, 12, 31, 23, 59, 59, 1000, "UTC"),
     Date(2023, 5, 1, 12, 0, 0, 123456789, "UTC"),
     Date(2023, 5, 1, 12, 0, 0, 123456000, "Local")}

TaskInputs ==
    {NewRecord(n, i, a, k, r, eta, exp) :
        n \in NameInputs, i \in IdInputs, a \in ArgsInputs, k \in KWArgsInputs,
        r \in RetriesInputs, eta \in TimeInputs, exp \in TimeInputs}

\* "2023-05-01T12:00:00.123456"
WellFormedTime ==
    <<"2", "0", "2", "3", "-", "0", "5", "-", "0", "1", "T", "1", "2", ":",
      "0", "0", ":", "0", "0", ".", "1", "2", "3", "4", "5", "6">>

\* "2023-05-01 12:00:00"
MalformedTime ==
    <<"2", "0", "2", "3", "-", "0", "5", "-", "0", "1", " ", "1", "2", ":",
      "0", "0", ":", "0", "0">>

WireObject(id, eta, expires) ==
    Bytes("object", ("task" :> "tasks.add") @@ ("id" :> id) @@ ("retries" :> 1)
                    @@ OmitEmpty("eta", eta, <<>>)
                    @@ OmitEmpty("expires", expires, <<>>))

WireInputs ==
    {Garbage, NoBytes}
    \cup {WireObject("id-1", eta, exp) :
            eta \in {<<>>, WellFormedTime, MalformedTime},
            exp \in {<<>>, WellFormedTime, MalformedTime}}

(***************************************************************************)
(* The codec as a state machine: either a Task of the inputs is encoded    *)
(* and its encoding decoded into a fresh Task, or a wire input is decoded  *)
(* into a fresh Task.                                                      *)
(***************************************************************************)
NotEncoded == [called |-> FALSE, err |-> Nil, bytes |-> NoBytes]

NotDecoded == [called |-> FALSE, from |-> "none", data |-> NoBytes, err |-> Nil,
               t |-> EmptyTask]

Decoding(from, data) ==
    LET r == UnmarshalJSON(EmptyTask, data)
    IN  [called |-> TRUE, from |-> from, data |-> data, err |-> r.err, t |-> r.t]

NoDelivery == [Body |-> NoBytes, DeliveryTag |-> 0]

NoNewTask == [called |-> FALSE, name |-> "", args |-> <<>>, kwargs |-> {},
              uuid |-> [err |-> Nil, id |-> ""], ok |-> FALSE, err |-> Nil,
              t |-> EmptyTask]

NoOp == [op |-> "none", before |-> EmptyTask, data |-> NoBytes, exchange |-> "",
         key |-> "", err |-> Nil]

TaskIdle ==
    newTask = NoNewTask /\ lastOp = NoOp /\ pubCalls = <<>> /\ history = <<>>

ConsumeIdle ==
    /\ pc = "bind" /\ ret = "none" /\ deliveries = <<>> /\ stream = "none"
    /\ msg = NoDelivery /\ cur = EmptyTask /\ messages = <<>>
    /\ readerOn = TRUE /\ readerGot = <<>> /\ arrived = <<>> /\ received = <<>>
    /\ pushed = <<>> /\ acks = <<>> /\ bindCalls = <<>> /\ openCalls = <<>>

CodecInit ==
    /\ task = EmptyTask
    /\ encoded = NotEncoded
    /\ decoded = NotDecoded
    /\ cap = 0
    /\ ConsumeIdle
    /\ TaskIdle

\* t.MarshalJSON() on a Task t of the inputs
Marshal ==
    /\ ~encoded.called /\ ~decoded.called
    /\ \E t \in TaskInputs :
          /\ task' = t
          /\ encoded' = [called |-> TRUE, err |-> MarshalJSON(t).err,
                         bytes |-> MarshalJSON(t).bytes]
    /\ UNCHANGED <<decoded, consumeVars, taskVars>>

\* UnmarshalJSON of the bytes MarshalJSON returned, into a fresh Task
UnmarshalEncoded ==
    /\ encoded.called /\ encoded.err = Nil /\ ~decoded.called
    /\ decoded' = Decoding("encoded", encoded.bytes)
    /\ UNCHANGED <<task, encoded, consumeVars, taskVars>>

\* UnmarshalJSON of a wire input, into a fresh Task
UnmarshalBody ==
    /\ ~encoded.called /\ ~decoded.called
    /\ \E data \in WireInputs : decoded' = Decoding("body", data)
    /\ UNCHANGED <<task, encoded, consumeVars, taskVars>>

CodecNext ==
    \/ Marshal
    \/ UnmarshalEncoded
    \/ UnmarshalBody

CodecSpec == CodecInit /\ [][CodecNext]_vars

(***************************************************************************)
(* Properties of the codec, checked under CodecSpec.                       *)
(***************************************************************************)
HasWellFormed(data, key) ==
    key \in DOMAIN data.obj /\ Parse(timeFormat, data.obj[key]).err = Nil

\* C6: decoding a wire object returns a time-format error whenever its eta is
\* missing or malformed, and whenever its expires is missing or malformed
\* (also when only eta is bad and expires is well-formed).
C6_DecodeRejectsBadTimes ==
    (decoded.called /\ decoded.data.kind = "object"
       /\ (~HasWellFormed(decoded.data, "eta")
             \/ ~HasWellFormed(decoded.data, "expires")))
    => decoded.err = ParseError

\* C7: decoding bytes that are not JSON returns the JSON parser's error, not
\* a time-parse error.
C7_MalformedJSONError ==
    (decoded.called /\ decoded.data.kind # "object") => decoded.err = SyntaxError

\* a Task of the data model the round trip is stated for: non-empty name and
\* Id, JSON-representable KWArgs, ETA and Expires set, in UTC, whole microseconds
SetUTCMicros(t) == ~IsZero(t) /\ t.loc = "UTC" /\ t.nsec % 1000 = 0

RoundTripInput(t) ==
    /\ t.Task # "" /\ t.Id # ""
    /\ \A kv \in t.KWArgs : kv[2] # Unsupported
    /\ SetUTCMicros(t.ETA) /\ SetUTCMicros(t.Expires)

Canonical(s) ==
    /\ Len(s) = 26
    /\ \A i \in 1..26 :
          IF i \in {5, 8} THEN s[i] = "-"
          ELSE IF i = 11 THEN s[i] = "T"
          ELSE IF i \in {14, 17} THEN s[i] = ":"
          ELSE IF i = 20 THEN s[i] = "."
          ELSE IsDigit(s[i])

\* C9: every eta / expires string the encoding holds is canonical, with
\* exactly six fractional digits, and for ETA = 2023-05-01T12:00:00.123456Z
\* it is exactly "2023-05-01T12:00:00.123456".
C9_CanonicalTimeStrings ==
    (encoded.called /\ encoded.err = Nil) =>
        /\ \A key \in {"eta", "expires"} \cap DOMAIN encoded.bytes.obj :
              Canonical(encoded.bytes.obj[key])
        /\ task.ETA = Date(2023, 5, 1, 12, 0, 0, 123456000, "UTC")
              => encoded.bytes.obj["eta"] = WellFormedTime

\* C10: the encoded object holds eta iff ETA is set, expires iff Expires is
\* set, args iff Args is non-empty, kwargs iff KWArgs is non-empty, retries
\* iff Retries is non-zero, and no key it holds has an empty or zero value.
C10_OmitEmpty ==
    (encoded.called /\ encoded.err = Nil) =>
        LET obj == encoded.bytes.obj
        IN  /\ ("eta" \in DOMAIN obj) <=> ~IsZero(task.ETA)
            /\ ("expires" \in DOMAIN obj) <=> ~IsZero(task.Expires)
            /\ ("args" \in DOMAIN obj) <=> task.Args # <<>>
            /\ ("kwargs" \in DOMAIN obj) <=> task.KWArgs # {}
            /\ ("retries" \in DOMAIN obj) <=> task.Retries # 0
            /\ "eta" \in DOMAIN obj => obj["eta"] # <<>>
            /\ "expires" \in DOMAIN obj => obj["expires"] # <<>>
            /\ "args" \in DOMAIN obj => obj["args"] # <<>>
            /\ "kwargs" \in DOMAIN obj => obj["kwargs"] # {}
            /\ "retries" \in DOMAIN obj => obj["retries"] # 0

\* an encoding that leaves out eta, args and retries and holds the rest
C10_Witness ==
    /\ encoded.called /\ encoded.err = Nil
    /\ IsZero(task.ETA) /\ task.Args = <<>> /\ task.Retries = 0
    /\ DOMAIN encoded.bytes.obj = {"task", "id", "kwargs", "expires"}

(***************************************************************************)
(* Consume(ch, queue, exchange, key, messages).  The channel ch, the       *)
(* broker behind it and the reader of messages are the environment: the    *)
(* broker answers QueueBind and Consume with nil or an error, puts         *)
(* deliveries with increasing tags on the stream and closes it; the reader *)
(* takes Tasks from messages until it stops reading.                       *)
(***************************************************************************)
Queue == "queue"

Exchange == "exchange"

Key == "key"

ConsumeBodies ==
    {Garbage,
     WireObject("id-1", WellFormedTime, WellFormedTime),
     WireObject("id-2", <<>>, <<>>)}

\* what ch.QueueBind and ch.Consume may return
BindResults == {Nil, ErrClosed, ErrNotFound}

OpenResults == {Nil, ErrClosed, ErrAccessRefused}

Init ==
    /\ task = EmptyTask
    /\ encoded = NotEncoded
    /\ decoded = NotDecoded
    /\ cap \in 0..MaxCap
    /\ ConsumeIdle
    /\ TaskIdle

calls == <<acks, bindCalls, openCalls>>

\* ch.QueueBind returns an error that Consume does not look at
QueueBindIgnoreErr ==
    /\ pc = "bind"
    /\ \E err \in BindResults :
          bindCalls' = Append(bindCalls, [queue |-> Queue, key |-> Key,
                                          exchange |-> Exchange, noWait |-> FALSE,
                                          err |-> err])
    /\ pc' = "open"
    /\ UNCHANGED <<codecVars, taskVars, ret, deliveries, stream, msg, cur, messages, cap,
                   readerOn, readerGot, arrived, received, pushed, acks, openCalls>>

\* ch.QueueBind called with exchange and key in the order of Consume's parameters
QueueBindSwapped ==
    /\ pc = "bind"
    /\ \E err \in BindResults :
          /\ bindCalls' = Append(bindCalls, [queue |-> Queue, key |-> Exchange,
                                             exchange |-> Key, noWait |-> FALSE,
                                             err |-> err])
          /\ IF err # Nil
             THEN pc' = "done" /\ ret' = err
             ELSE pc' = "open" /\ ret' = ret
    /\ UNCHANGED <<codecVars, taskVars, deliveries, stream, msg, cur, messages, cap,
                   readerOn, readerGot, arrived, received, pushed, acks, openCalls>>

\* if err := ch.QueueBind(queue, key, exchange, false, nil); err != nil { return err }
QueueBind ==
    /\ pc = "bind"
    /\ \E err \in BindResults :
          /\ bindCalls' = Append(bindCalls, [queue |-> Queue, key |-> Key,
                                             exchange |-> Exchange, noWait |-> FALSE,
                                             err |-> err])
          /\ IF err # Nil
             THEN pc' = "done" /\ ret' = err
             ELSE pc' = "open" /\ ret' = ret
    /\ UNCHANGED <<codecVars, taskVars, deliveries, stream, msg, cur, messages, cap,
                   readerOn, readerGot, arrived, received, pushed, acks, openCalls>>

\* the arguments of ch.Consume(queue, consumer, autoAck, exclusive, noLocal, noWait, args)
OpenCall(err) ==
    [queue |-> Queue, consumer |-> "", autoAck |-> FALSE, exclusive |-> TRUE,
     noLocal |-> FALSE, noWait |-> FALSE, err |-> err]

\* ch.Consume returns an error that Consume does not look at
ChConsumeIgnoreErr ==
    /\ pc = "open"
    /\ \E err \in OpenResults : openCalls' = Append(openCalls, OpenCall(err))
    /\ pc' = "range" /\ stream' = "open"
    /\ UNCHANGED <<codecVars, taskVars, ret, deliveries, msg, cur, messages, cap, readerOn,
                   readerGot, arrived, received, pushed, acks, bindCalls>>

\* deliveries, err := ch.Consume(queue, "", false, true, false, false, nil)
\* if err != nil { return err }
ChConsume ==
    /\ pc = "open"
    /\ \E err \in OpenResults :
          /\ openCalls' = Append(openCalls, OpenCall(err))
          /\ IF err # Nil
             THEN pc' = "done" /\ ret' = err /\ stream' = stream
             ELSE pc' = "range" /\ ret' = ret /\ stream' = "open"
    /\ UNCHANGED <<codecVars, taskVars, deliveries, msg, cur, messages, cap, readerOn,
                   readerGot, arrived, received, pushed, acks, bindCalls>>

\* a loop that waits for deliveries for ever, also on a closed stream
RangeNoExit ==
    /\ pc = "range"
    /\ deliveries # <<>>
    /\ msg' = Head(deliveries)
    /\ deliveries' = Tail(deliveries)
    /\ received' = Append(received, Head(deliveries))
    /\ pc' = "decode"
    /\ UNCHANGED <<codecVars, taskVars, ret, stream, cur, messages, cap, readerOn,
                   readerGot, arrived, pushed, calls>>

\* a loop that ends as soon as no delivery is waiting
RangeReturnOnIdle ==
    /\ pc = "range"
    /\ \/ /\ deliveries # <<>>
          /\ msg' = Head(deliveries)
          /\ deliveries' = Tail(deliveries)
          /\ received' = Append(received, Head(deliveries))
          /\ pc' = "decode"
          /\ ret' = ret
       \/ /\ deliveries = <<>>
          /\ pc' = "done"
          /\ ret' = Nil
          /\ UNCHANGED <<msg, deliveries, received>>
    /\ UNCHANGED <<codecVars, taskVars, stream, cur, messages, cap, readerOn,
                   readerGot, arrived, pushed, calls>>

\* for msg := range deliveries: the next delivery, or the end of the loop and
\* return nil once the stream is closed and drained
Range ==
    /\ pc = "range"
    /\ \/ /\ deliveries # <<>>
          /\ msg' = Head(deliveries)
          /\ deliveries' = Tail(deliveries)
          /\ received' = Append(received, Head(deliveries))
          /\ pc' = "decode"
          /\ ret' = ret
       \/ /\ deliveries = <<>> /\ stream = "closed"
          /\ pc' = "done"
          /\ ret' = Nil
          /\ UNCHANGED <<msg, deliveries, received>>
    /\ UNCHANGED <<codecVars, taskVars, stream, cur, messages, cap, readerOn, readerGot,
                   arrived, pushed, calls>>

\* a decode step that skips a delivery whose body does not decode
DecodeSkipOnError ==
    /\ pc = "decode"
    /\ cur' = UnmarshalJSON(EmptyTask, msg.Body).t
    /\ pc' = IF UnmarshalJSON(EmptyTask, msg.Body).err # Nil THEN "range" ELSE "send"
    /\ UNCHANGED <<codecVars, taskVars, ret, deliveries, stream, msg, messages, cap,
                   readerOn, readerGot, arrived, received, pushed, calls>>

\* a decode step that acknowledges the delivery before the Task is pushed
DecodeAndAck ==
    /\ pc = "decode"
    /\ cur' = UnmarshalJSON(EmptyTask, msg.Body).t
    /\ acks' = Append(acks, [tag |-> msg.DeliveryTag, multiple |-> FALSE])
    /\ pc' = "send"
    /\ UNCHANGED <<codecVars, taskVars, ret, deliveries, stream, msg, messages, cap,
                   readerOn, readerGot, arrived, received, pushed, bindCalls,
                   openCalls>>

\* task := &Task{}; task.UnmarshalJSON(msg.Body), the error dropped
Decode ==
    /\ pc = "decode"
    /\ cur' = UnmarshalJSON(EmptyTask, msg.Body).t
    /\ pc' = "send"
    /\ UNCHANGED <<codecVars, taskVars, ret, deliveries, stream, msg, messages, cap, readerOn,
                   readerGot, arrived, received, pushed, calls>>

\* a send that gives up when the channel cannot take the Task at once
SendNonBlocking ==
    /\ pc = "send"
    /\ IF cap = 0 /\ readerOn
       THEN /\ readerGot' = Append(readerGot, cur)
            /\ pushed' = Append(pushed, cur)
            /\ messages' = messages
       ELSE IF Len(messages) < cap
       THEN /\ messages' = Append(messages, cur)
            /\ pushed' = Append(pushed, cur)
            /\ readerGot' = readerGot
       ELSE UNCHANGED <<messages, pushed, readerGot>>
    /\ pc' = "ack"
    /\ UNCHANGED <<codecVars, taskVars, ret, deliveries, stream, msg, cur, cap, readerOn,
                   arrived, received, calls>>

\* messages <- *task: blocks until the reader takes the Task (unbuffered
\* channel) or the buffer has room
Send ==
    /\ pc = "send"
    /\ \/ /\ cap = 0 /\ readerOn
          /\ readerGot' = Append(readerGot, cur)
          /\ messages' = messages
       \/ /\ Len(messages) < cap
          /\ messages' = Append(messages, cur)
          /\ readerGot' = readerGot
    /\ pushed' = Append(pushed, cur)
    /\ pc' = "ack"
    /\ UNCHANGED <<codecVars, taskVars, ret, deliveries, stream, msg, cur, cap, readerOn,
                   arrived, received, calls>>

\* an acknowledgment of every delivery up to this one
AckMultiple ==
    /\ pc = "ack"
    /\ acks' = Append(acks, [tag |-> msg.DeliveryTag, multiple |-> TRUE])
    /\ pc' = "range"
    /\ UNCHANGED <<codecVars, taskVars, ret, deliveries, stream, msg, cur, messages, cap,
                   readerOn, readerGot, arrived, received, pushed, bindCalls,
                   openCalls>>

\* ch.Ack(msg.DeliveryTag, false), the error dropped
Ack ==
    /\ pc = "ack"
    /\ acks' = Append(acks, [tag |-> msg.DeliveryTag, multiple |-> FALSE])
    /\ pc' = "range"
    /\ UNCHANGED <<codecVars, taskVars, ret, deliveries, stream, msg, cur, messages, cap,
                   readerOn, readerGot, arrived, received, pushed, bindCalls,
                   openCalls>>

\* the broker puts the next delivery on the open stream
BrokerDeliver ==
    /\ stream = "open" /\ Len(arrived) < MaxDeliveries
    /\ \E body \in ConsumeBodies :
          LET d == [Body |-> body, DeliveryTag |-> Len(arrived) + 1]
          IN  /\ deliveries' = Append(deliveries, d)
              /\ arrived' = Append(arrived, d)
    /\ UNCHANGED <<codecVars, taskVars, pc, ret, stream, msg, cur, messages, cap, readerOn,
                   readerGot, received, pushed, calls>>

\* the broker closes the stream
BrokerClose ==
    /\ stream = "open"
    /\ stream' = "closed"
    /\ UNCHANGED <<codecVars, taskVars, pc, ret, deliveries, msg, cur, messages, cap,
                   readerOn, readerGot, arrived, received, pushed, calls>>

\* the reader takes the oldest Task from the buffer of messages
ReaderTake ==
    /\ readerOn /\ messages # <<>>
    /\ readerGot' = Append(readerGot, Head(messages))
    /\ messages' = Tail(messages)
    /\ UNCHANGED <<codecVars, taskVars, pc, ret, deliveries, stream, msg, cur, cap, readerOn,
                   arrived, received, pushed, calls>>

\* the reader stops reading from messages
ReaderStop ==
    /\ readerOn
    /\ readerOn' = FALSE
    /\ UNCHANGED <<codecVars, taskVars, pc, ret, deliveries, stream, msg, cur, messages, cap,
                   readerGot, arrived, received, pushed, calls>>

Next ==
    \/ QueueBind
    \/ ChConsume
    \/ Range
    \/ Decode
    \/ Send
    \/ Ack
    \/ BrokerDeliver
    \/ BrokerClose
    \/ ReaderTake
    \/ ReaderStop

Spec == Init /\ [][Next]_vars

\* the steps of Consume that call the channel, wait for a delivery or push
ConsumeStep == QueueBind \/ ChConsume \/ Range \/ Send \/ Ack

\* the decode step is not delayed for ever: Decode is enabled exactly when
\* pc = "decode" and leaves pc = "send", so this is WF_vars(Decode)
DecodeFair == []<>(pc # "decode")

\* Spec with the goroutine that runs Consume scheduled whenever it can take a
\* step, and a reader that, while it is reading, takes what is in the buffer
FairSpec ==
    Init /\ [][Next]_vars /\ WF_vars(ConsumeStep) /\ DecodeFair
         /\ WF_vars(ReaderTake)

(***************************************************************************)
(* Properties of Consume, checked under Spec.                              *)
(***************************************************************************)
Decoded(d) == UnmarshalJSON(EmptyTask, d.Body).t

\* C1: the Tasks pushed are the decodings of the deliveries in their order
\* of arrival, the acknowledgments carry the tags in that order, one per
\* delivery, the reader sees the Tasks in that order, and when Consume has
\* returned nil no delivery that arrived is left out.
C1_ArrivalOrder ==
    /\ received = SubSeq(arrived, 1, Len(received))
    /\ Len(pushed) <= Len(received)
    /\ \A i \in 1..Len(pushed) : pushed[i] = Decoded(arrived[i])
    /\ Len(acks) <= Len(received)
    /\ \A i \in 1..Len(acks) : acks[i].tag = arrived[i].DeliveryTag
    /\ readerGot \o messages = pushed
    /\ (pc = "done" /\ ret = Nil)
       => (Len(pushed) = Len(arrived) /\ Len(acks) = Len(arrived))

\* Consume has returned nil after three deliveries with three different
\* bodies, each pushed and acknowledged
C1_Witness ==
    /\ pc = "done" /\ ret = Nil
    /\ Len(arrived) = 3 /\ Len(pushed) = 3 /\ Len(acks) = 3
    /\ arrived[1].Body = WireObject("id-2", <<>>, <<>>)
    /\ arrived[2].Body = Garbage
    /\ arrived[3].Body = WireObject("id-1", WellFormedTime, WellFormedTime)
    /\ pushed[1].Id = "id-2" /\ pushed[2].Id = "" /\ pushed[3].Id = "id-1"

\* C2: a delivery is acknowledged only after its Task has been pushed and
\* before the next delivery is received, and each acknowledgment names that
\* one delivery's tag with multiple = false.
C2_AckAfterPush ==
    /\ Len(acks) <= Len(pushed)
    /\ Len(pushed) <= Len(received)
    /\ Len(received) <= Len(acks) + 1
    /\ Len(readerGot) + Len(messages) = Len(pushed)
    /\ \A i \in 1..Len(acks) :
          acks[i] = [tag |-> received[i].DeliveryTag, multiple |-> FALSE]

\* the third Task has been pushed and its delivery is not acknowledged yet
C2_Witness ==
    /\ pc = "ack" /\ Len(received) = 3 /\ Len(pushed) = 3 /\ Len(acks) = 2
    /\ acks[2] = [tag |-> 2, multiple |-> FALSE]

\* C3: if QueueBind fails, Consume returns that error, with no stream-open
\* attempt, no Task pushed and no acknowledgment.
C3_BindFailure ==
    (bindCalls # <<>> /\ bindCalls[1].err # Nil) =>
        /\ pc = "done" /\ ret = bindCalls[1].err
        /\ openCalls = <<>> /\ received = <<>> /\ pushed = <<>> /\ acks = <<>>

\* Consume has returned the error of a failed QueueBind
C3_Witness ==
    /\ Len(bindCalls) = 1 /\ bindCalls[1].err = ErrNotFound
    /\ pc = "done" /\ ret = ErrNotFound

\* C4: if QueueBind succeeds and opening the stream fails, Consume returns
\* that error at once: no delivery received, no Task pushed, no acknowledgment.
C4_OpenFailure ==
    (openCalls # <<>> /\ openCalls[1].err # Nil) =>
        /\ pc = "done" /\ ret = openCalls[1].err
        /\ Len(bindCalls) = 1 /\ bindCalls[1].err = Nil
        /\ Len(openCalls) = 1 /\ stream = "none"
        /\ arrived = <<>> /\ received = <<>> /\ pushed = <<>> /\ acks = <<>>

\* Consume has returned the error of a failed stream-open
C4_Witness ==
    /\ Len(openCalls) = 1 /\ openCalls[1].err = ErrAccessRefused
    /\ pc = "done" /\ ret = ErrAccessRefused

\* C5: every stream-open call asks for manual acknowledgment (autoAck false)
\* and for non-exclusive consumption (exclusive false).
C5_ManualAckNonExclusive ==
    \A i \in 1..Len(openCalls) :
        openCalls[i].autoAck = FALSE /\ openCalls[i].exclusive = FALSE

(***************************************************************************)
(* The life of a Task: NewTask builds it, then MarshalJSON, Publish and    *)
(* UnmarshalJSON are applied to it, in any order, MaxOps times at most.    *)
(* The identifier source and the channel's Publish are the environment.    *)
(***************************************************************************)
\* what uuid.NewV4() may return
UUIDResults ==
    {[err |-> Nil, id |-> "uuid-1"], [err |-> Nil, id |-> "uuid-2"],
     [err |-> ErrRandom, id |-> ""]}

\* what ch.Publish may return
PublishResults == {Nil, ErrClosed}

\* the exchange and routing key the caller passes to Publish
RouteInputs == {<<"", "celery">>, <<"exchange", "key">>}

\* time.Now()
ClockInputs == {Date(2023, 5, 1, 12, 0, 0, 0, "Local")}

\* the bytes the caller passes to UnmarshalJSON
DecodeInputs ==
    {Garbage,
     WireObject("id-1", WellFormedTime, WellFormedTime),
     WireObject("id-2", <<>>, <<>>),
     WireObject("id-1", MalformedTime, WellFormedTime)}

\* NewTask that does not look at the error of the identifier source
NewTaskIgnoreErr(name, args, kwargs, uuid) ==
    [ok |-> TRUE, err |-> Nil,
     t |-> NewRecord(name, uuid.id, args, kwargs, 0, ZeroTime, ZeroTime)]

\* NewTask(task, args, kwargs) (*Task, error), uuid being what uuid.NewV4()
\* returned; ok is false for a nil *Task
NewTask(name, args, kwargs, uuid) ==
    IF uuid.err # Nil
    THEN [ok |-> FALSE, err |-> uuid.err, t |-> EmptyTask]
    ELSE [ok |-> TRUE, err |-> Nil,
          t |-> NewRecord(name, uuid.id, args, kwargs, 0, ZeroTime, ZeroTime)]

\* json.Marshal(t) of a *Task: t.MarshalJSON(), its error wrapped
JSONMarshalTask(t) ==
    IF MarshalJSON(t).err # Nil
    THEN [err |-> MarshalerError, bytes |-> NoBytes]
    ELSE MarshalJSON(t)

\* ch.Publish(exchange, key, false, false, msg) and what it returned
PublishCall(exchange, key, body, now, result) ==
    [exchange |-> exchange, key |-> key, mandatory |-> FALSE, immediate |-> FALSE,
     msg |-> [DeliveryMode |-> "amqp.Persistent", Timestamp |-> now,
              ContentType |-> "application/json", ContentEncoding |-> "utf-8",
              Body |-> body],
     err |-> result]

\* Publish that sends whatever json.Marshal returned, error or not
PublishIgnoreErr(t, exchange, key, now, result) ==
    [calls |-> <<PublishCall(exchange, key, JSONMarshalTask(t).bytes, now, result)>>,
     err |-> result]

\* Publish that calls ch.Publish a second time when the first call fails
PublishRetry(t, exchange, key, now, result) ==
    IF JSONMarshalTask(t).err # Nil
    THEN [calls |-> <<>>, err |-> JSONMarshalTask(t).err]
    ELSE LET call == PublishCall(exchange, key, JSONMarshalTask(t).bytes, now, result)
         IN  [calls |-> IF result # Nil THEN <<call, call>> ELSE <<call>>,
              err |-> result]

\* (t *Task) Publish(ch, exchange, key) error: the calls made on ch and the
\* error returned, result being what ch.Publish returns
Publish(t, exchange, key, now, result) ==
    IF JSONMarshalTask(t).err # Nil
    THEN [calls |-> <<>>, err |-> JSONMarshalTask(t).err]
    ELSE [calls |-> <<PublishCall(exchange, key, JSONMarshalTask(t).bytes, now,
                                  result)>>,
          err |-> result]

Op(name, before, data, exchange, key, err) ==
    [op |-> name, before |-> before, data |-> data, exchange |-> exchange,
     key |-> key, err |-> err]

CallNewTask ==
    /\ ~newTask.called
    /\ \E name \in NameInputs, args \in ArgsInputs, kwargs \in KWArgsInputs,
          uuid \in UUIDResults :
          LET r == NewTask(name, args, kwargs, uuid)
          IN  /\ newTask' = [called |-> TRUE, name |-> name, args |-> args,
                             kwargs |-> kwargs, uuid |-> uuid, ok |-> r.ok,
                             err |-> r.err, t |-> r.t]
              /\ task' = r.t
    /\ UNCHANGED <<encoded, decoded, lastOp, pubCalls, history, consumeVars>>

CanApply == newTask.called /\ newTask.ok /\ Len(history) < MaxOps

CallMarshalJSON ==
    /\ CanApply
    /\ encoded' = [called |-> TRUE, err |-> MarshalJSON(task).err,
                   bytes |-> MarshalJSON(task).bytes]
    /\ lastOp' = Op("MarshalJSON", task, NoBytes, "", "", MarshalJSON(task).err)
    /\ history' = Append(history, "MarshalJSON")
    /\ UNCHANGED <<task, decoded, newTask, pubCalls, consumeVars>>

\* a Publish that counts a failed send in t.Retries
CallPublishCountRetry ==
    /\ CanApply
    /\ \E route \in RouteInputs, now \in ClockInputs, result \in PublishResults :
          LET r == Publish(task, route[1], route[2], now, result)
          IN  /\ pubCalls' = r.calls
              /\ lastOp' = Op("Publish", task, NoBytes, route[1], route[2], r.err)
              /\ task' = IF r.err # Nil
                         THEN [task EXCEPT !.Retries = @ + 1] ELSE task
    /\ history' = Append(history, "Publish")
    /\ UNCHANGED <<encoded, decoded, newTask, consumeVars>>

CallPublish ==
    /\ CanApply
    /\ \E route \in RouteInputs, now \in ClockInputs, result \in PublishResults :
          LET r == Publish(task, route[1], route[2], now, result)
          IN  /\ pubCalls' = r.calls
              /\ lastOp' = Op("Publish", task, NoBytes, route[1], route[2], r.err)
    /\ history' = Append(history, "Publish")
    /\ UNCHANGED <<task, encoded, decoded, newTask, consumeVars>>

CallUnmarshalJSON ==
    /\ CanApply
    /\ \E data \in DecodeInputs :
          /\ task' = UnmarshalJSON(task, data).t
          /\ lastOp' = Op("UnmarshalJSON", task, data, "", "",
                          UnmarshalJSON(task, data).err)
    /\ history' = Append(history, "UnmarshalJSON")
    /\ UNCHANGED <<encoded, decoded, newTask, pubCalls, consumeVars>>

TaskInit ==
    /\ task = EmptyTask
    /\ encoded = NotEncoded
    /\ decoded = NotDecoded
    /\ cap = 0
    /\ ConsumeIdle
    /\ TaskIdle

TaskNext ==
    \/ CallNewTask
    \/ CallMarshalJSON
    \/ CallPublish
    \/ CallUnmarshalJSON

TaskSpec == TaskInit /\ [][TaskNext]_vars

(***************************************************************************)
(* Properties of NewTask and Publish, checked under TaskSpec.              *)
(***************************************************************************)
HasUnsupported(t) == \E kv \in t.KWArgs : kv[2] = Unsupported

\* C11: if the Task cannot be encoded (a KWArgs value is not
\* JSON-representable), Publish returns the encoding error and makes no
\* publish call on the channel.
C11_EncodingFailureSendsNothing ==
    (lastOp.op = "Publish" /\ HasUnsupported(lastOp.before)) =>
        /\ lastOp.err = MarshalerError
        /\ pubCalls = <<>>

\* Publish has returned the encoding error of a Task with an unsupported
\* KWArgs value
C11_Witness ==
    /\ lastOp.op = "Publish" /\ HasUnsupported(lastOp.before)
    /\ lastOp.err = MarshalerError /\ pubCalls = <<>>

\* C12: when encoding succeeds, Publish makes exactly one publish call, with
\* the caller's exchange and routing key, the Task's encoding as body,
\* persistent delivery mode, content type application/json and content
\* encoding utf-8, and returns what that call returned.
C12_OnePublishCall ==
    (lastOp.op = "Publish" /\ ~HasUnsupported(lastOp.before)) =>
        /\ Len(pubCalls) = 1
        /\ pubCalls[1].exchange = lastOp.exchange
        /\ pubCalls[1].key = lastOp.key
        /\ pubCalls[1].msg.Body = MarshalJSON(lastOp.before).bytes
        /\ pubCalls[1].msg.Body.kind = "object"
        /\ pubCalls[1].msg.DeliveryMode = "amqp.Persistent"
        /\ pubCalls[1].msg.ContentType = "application/json"
        /\ pubCalls[1].msg.ContentEncoding = "utf-8"
        /\ lastOp.err = pubCalls[1].err

\* Publish to exchange "" with key "celery" on a channel that fails: one
\* call, its error returned
C12_Witness ==
    /\ lastOp.op = "Publish" /\ ~HasUnsupported(lastOp.before)
    /\ lastOp.exchange = "" /\ lastOp.key = "celery"
    /\ Len(pubCalls) = 1 /\ pubCalls[1].err = ErrClosed /\ lastOp.err = ErrClosed

\* the id of the wire object the bytes spell, "" when there is none
IdOf(data) == IF data.kind = "object" THEN Get(data.obj, "id", "") ELSE ""

\* C15 as stated: after NewTask, no sequence of MarshalJSON, Publish and
\* UnmarshalJSON applied to the Task changes its Id, and MarshalJSON and
\* Publish leave every field unchanged.
C15_IdNeverChanges ==
    newTask.ok =>
        /\ task.Id = newTask.t.Id
        /\ lastOp.op \in {"MarshalJSON", "Publish"} => task = lastOp.before

\* C15 as amended: after NewTask, no sequence of MarshalJSON and Publish
\* changes the Task's Id or any other field; UnmarshalJSON applied to the
\* Task sets its Id to the id of the wire object decoded ("" without one).
C15_IdKeptByEncodeAndPublish ==
    newTask.ok =>
        /\ lastOp.op \in {"MarshalJSON", "Publish"} => task = lastOp.before
        /\ (\A i \in 1..Len(history) : history[i] # "UnmarshalJSON")
              => task = newTask.t
        /\ lastOp.op = "UnmarshalJSON" => task.Id = IdOf(lastOp.data)

\* a Task that kept its fields through Publish and then took the id of a
\* decoded wire object
C15_Witness ==
    /\ newTask.ok /\ history = <<"Publish", "UnmarshalJSON">>
    /\ lastOp.before = newTask.t /\ newTask.t.Id = "uuid-1"
    /\ task.Id = "id-2"

\* C16: NewTask either fails with the identifier source's error and no Task,
\* or returns a Task with the given name, Args and KWArgs, the generated Id,
\* Retries 0 and ETA and Expires unset.
C16_NewTask ==
    newTask.called =>
        IF newTask.uuid.err # Nil
        THEN ~newTask.ok /\ newTask.err = newTask.uuid.err
        ELSE /\ newTask.ok /\ newTask.err = Nil
             /\ newTask.t.Task = newTask.name
             /\ newTask.t.Args = newTask.args
             /\ newTask.t.KWArgs = newTask.kwargs
             /\ newTask.t.Id = newTask.uuid.id /\ newTask.t.Id # ""
             /\ newTask.t.Retries = 0
             /\ IsZero(newTask.t.ETA) /\ IsZero(newTask.t.Expires)

\* NewTask has failed with the error of the identifier source
C16_Witness ==
    /\ newTask.called /\ ~newTask.ok /\ newTask.err = ErrRandom
    /\ newTask.name = "tasks.add" /\ newTask.args # <<>>


(***************************************************************************)
(* Further properties of Consume, checked under Spec and FairSpec.         *)
(***************************************************************************)
Streaming == openCalls # <<>> /\ openCalls[1].err = Nil

\* C13: if bind and stream-open succeed, the broker closes the stream and the
\* reader keeps reading, then Consume eventually returns nil, and from then
\* on every delivery that arrived has been pushed and acknowledged.
C13_Termination ==
    ([]readerOn /\ <>(stream = "closed")) =>
        <>[](/\ pc = "done" /\ ret = Nil
             /\ Len(pushed) = Len(arrived) /\ Len(acks) = Len(arrived)
             /\ readerGot = pushed)

\* Consume has returned nil on a closed stream with the reader still reading
\* and both deliveries pushed, taken by the reader and acknowledged
C13_Witness ==
    /\ pc = "done" /\ ret = Nil /\ stream = "closed" /\ readerOn
    /\ Len(arrived) = 2 /\ readerGot = pushed /\ Len(pushed) = 2
    /\ Len(acks) = 2 /\ messages = <<>>

\* C14: once the streaming loop is entered, Consume has returned only if the
\* delivery stream is closed and drained, and then it returned nil.
C14_ReturnsOnlyWhenClosed ==
    (Streaming /\ pc = "done") =>
        (stream = "closed" /\ deliveries = <<>> /\ ret = Nil)

\* Consume has returned after a delivery with an undecodable body, with a
\* reader that stopped reading
C14_Witness ==
    /\ Streaming /\ pc = "done" /\ stream = "closed" /\ ~readerOn
    /\ Len(arrived) = 1 /\ arrived[1].Body = Garbage /\ Len(acks) = 1

Phase ==
    CASE pc = "bind" -> "Unbound"
      [] pc = "open" -> "Bound"
      [] pc \in {"range", "decode", "send", "ack"} -> "Streaming"
      [] pc = "done" /\ ret = Nil -> "Closed"
      [] OTHER -> "Failed"

PhaseSteps ==
    {<<"Unbound", "Bound">>, <<"Unbound", "Failed">>, <<"Bound", "Streaming">>,
     <<"Bound", "Failed">>, <<"Streaming", "Closed">>}

C17Inv ==
    /\ pc = "bind" => (bindCalls = <<>> /\ openCalls = <<>>)
    /\ pc # "bind" =>
          /\ Len(bindCalls) = 1
          /\ bindCalls[1].queue = Queue /\ bindCalls[1].key = Key
          /\ bindCalls[1].exchange = Exchange
    /\ Len(openCalls) <= 1
    /\ openCalls # <<>> => (bindCalls # <<>> /\ bindCalls[1].err = Nil)
    /\ Phase = "Streaming" => Streaming
    /\ Phase = "Closed" => Streaming
    /\ Phase = "Failed" => ~Streaming
    /\ ~Streaming =>
          (arrived = <<>> /\ received = <<>> /\ pushed = <<>> /\ acks = <<>>)

C17Step ==
    /\ Phase' # Phase => <<Phase, Phase'>> \in PhaseSteps
    /\ pc = "done" =>
          UNCHANGED <<pc, ret, bindCalls, openCalls, acks, received, pushed>>

\* C17: Consume moves Unbound -> Bound -> Streaming -> Closed (or from
\* Unbound or Bound to a return with the error) and in no other way: one
\* queue-bind call with the queue, key and exchange given, made first; at
\* most one stream-open call, after a successful bind; no delivery, push or
\* acknowledgment before the stream-open succeeded; nothing after the return.
C17_StateMachine == []C17Inv /\ [][C17Step]_vars

\* Consume has gone through all four states with one delivery on an
\* unbuffered output channel
C17_Witness ==
    /\ Phase = "Closed" /\ cap = 0 /\ Len(bindCalls) = 1 /\ Len(openCalls) = 1
    /\ Len(arrived) = 1 /\ Len(acks) = 1 /\ Len(readerGot) = 1

DecodeErr(d) == UnmarshalJSON(EmptyTask, d.Body).err

\* C18: a delivery whose body decodes with an error is pushed and
\* acknowledged like any other: between two deliveries every delivery
\* received has one Task pushed and one acknowledgment, Consume returns no
\* error once streaming, and the Task pushed for a body that is not a JSON
\* object is the all-empty Task.
C18_DecodeErrorsSwallowed ==
    /\ (Streaming /\ pc \in {"range", "done"}) =>
          (Len(pushed) = Len(received) /\ Len(acks) = Len(received))
    /\ (Streaming /\ pc = "ack") =>
          (Len(pushed) = Len(received) /\ Len(acks) = Len(received) - 1)
    /\ Streaming => ret \in {"none", Nil}
    /\ \A i \in 1..Len(pushed) :
          arrived[i].Body.kind # "object" => pushed[i] = EmptyTask

\* a delivery with every field set, then an undecodable one: both pushed and
\* acknowledged, the second as the all-empty Task, and a third is received
C18_Witness ==
    /\ Len(acks) = 2 /\ Len(pushed) = 2 /\ Len(received) = 3
    /\ arrived[1].Body = WireObject("id-1", WellFormedTime, WellFormedTime)
    /\ pushed[1].Id = "id-1"
    /\ arrived[2].Body = Garbage /\ DecodeErr(arrived[2]) # Nil
    /\ pushed[2] = EmptyTask

SendBlocked == pc = "send" /\ ~(cap = 0 /\ readerOn) /\ Len(messages) >= cap

C19Inv ==
    /\ Len(received) - Len(acks) \in {0, 1}
    /\ pc = "send" =>
          (Len(acks) = Len(received) - 1 /\ Len(pushed) = Len(acks))

C19Step ==
    /\ SendBlocked =>
          (pc' = "send" /\ acks' = acks /\ received' = received /\ ret' = ret
           /\ pushed' = pushed)
    /\ (SendBlocked /\ ~readerOn) => (SendBlocked' /\ ~readerOn')

\* C19: while the push is blocked the delivery stays unacknowledged and no
\* further delivery is received; at most one delivery is received and not
\* acknowledged; with a reader that has stopped, Consume stays blocked in
\* the push for ever, also on a closed stream.
C19_Backpressure == []C19Inv /\ [][C19Step]_vars

\* the push of the second Task is blocked on a full buffer, the reader has
\* stopped and the stream is closed
C19_Witness ==
    /\ SendBlocked /\ ~readerOn /\ stream = "closed"
    /\ Len(received) = 2 /\ Len(acks) = 1 /\ Len(messages) = cap


(***************************************************************************)
(* A producer and a consumer on one broker: a Task built by NewTask is     *)
(* sent with Publish, the broker routes the published body to the queue,   *)
(* and a running Consume decodes, pushes and acknowledges it.              *)
(***************************************************************************)
\* the broker routes the message of an accepted ch.Publish to the queue,
\* body unchanged
BrokerRoute ==
    /\ stream = "open"
    /\ pubCalls # <<>> /\ pubCalls[1].err = Nil
    /\ Len(arrived) < Len(pubCalls)
    /\ LET d == [Body |-> pubCalls[1].msg.Body, DeliveryTag |-> Len(arrived) + 1]
       IN  /\ deliveries' = Append(deliveries, d)
           /\ arrived' = Append(arrived, d)
    /\ UNCHANGED <<codecVars, taskVars, pc, ret, stream, msg, cur, messages, cap,
                   readerOn, readerGot, received, pushed, calls>>

HandOffNext ==
    \/ CallNewTask
    \/ CallPublish
    \/ BrokerRoute
    \/ QueueBind
    \/ ChConsume
    \/ Range
    \/ Decode
    \/ Send
    \/ Ack
    \/ BrokerClose
    \/ ReaderTake
    \/ ReaderStop

HandOffSpec == Init /\ [][HandOffNext]_vars

====
